---- MODULE Spec2Model ----
(***************************************************************************)
(* Store-synchronisation client of src/Desbord01.py (a Streamlit dashboard *)
(* over the WooCommerce REST API): the API helper functions, the paginated *)
(* fetcher get_all_products, the st.cache_data memoisation of              *)
(* get_products_cached and the UI handlers that mutate the store.          *)
(*                                                                         *)
(* The specifications share the variables:                                 *)
(*   SpecApi   - one call of an API helper or of an AI provider, from its  *)
(*               first request to its return, against every outcome of     *)
(*               the transport (requests.get/put/post/delete);             *)
(*   SpecApiFair - SpecApi with a started get_all_products loop going on;  *)
(*   SpecAnalytics - the metrics of analytics_tab on given lists of        *)
(*               products and orders;                                      *)
(*   SpecCache - get_products_cached calls, clears, remote changes and     *)
(*               the passage of time;                                      *)
(*   Spec, SpecReviews, SpecBulk - script runs of main(), one run per user  *)
(*               interaction (Streamlit reruns the whole script), in       *)
(*               sessions of the Listing Update, Reviews and Bulk Upload   *)
(*               tabs.                                                     *)
(***************************************************************************)
EXTENDS Integers, Sequences, FiniteSets, TLC

\* ------------------------------------------------------------------ bounds
MaxT == 6          \* largest small remote collection
MaxPerPage == 3    \* largest small page size
MaxBody == 1       \* response bodies are numbered 0..MaxBody
MaxListPage == 1   \* pages the Product List tab's page input is set to
MaxRev == 2        \* changes the remote store's data goes through
MaxClock == 300    \* seconds of wall clock
MaxVariations == 1 \* variations the remote product gets
MaxReviews == 1    \* reviews in the remote store
MaxRows == 2       \* rows of an uploaded spreadsheet
MaxProducts == 3   \* products in the lists analytics_tab is run on
MaxOrders == 3     \* orders in the lists analytics_tab is run on
MaxItems == 2      \* line items in the orders analytics_tab is run on
MaxLongItems == 12 \* line items of the long orders (more than TopN products)
MaxPid == 2        \* product ids in the short orders' line items
MaxQty == 2        \* quantity of a line item

\* ------------------------------------------------------- program constants
PerPageAll == 100          \* get_all_products: per_page = 100
PerPageOnce == 100         \* get_orders, variations, reviews: "per_page": 100
HTTP_OK == 200             \* status a read, an update or a delete expects
HTTP_CREATED == 201        \* status a create expects
TTL == 300                 \* @st.cache_data(ttl=300)
PerPageListing == 100      \* listing_update_tab: page=1, per_page=100
PerPageList == 20          \* product_list_tab: per_page=20
TopN == 10                 \* sorted(...)[:10]
DefaultPage == 1           \* product_list_tab: st.number_input("Page", min_value=1, value=1)
TickStep == TTL \div 2      \* the clock is read every TTL/2 seconds

VARIABLES
    \* ---- the remote store, as the helpers see it
    remote_products,   \* the remote product collection, in remote order
    \* ---- get_all_products (locals of one call)
    per_page,          \* page size of the call
    page,              \* next page to request
    all_products,      \* products collected so far
    pc,                \* "idle" | "loop" | "returned"
    requests,          \* page requests issued by the call so far
    sleeps,            \* time.sleep(0.5) pauses taken by the call so far
    failed_at,         \* 0, or the index k of the page request that failed
    \* ---- the last helper call that returned
    api_call,          \* [fn, out, result]
    \* ---- the st.cache_data store of get_products_cached
    cache,             \* key -> [value, stored_at, outdated]
    now,               \* wall clock, seconds
    remote,            \* the remote store: [rev, p_status, p_type, p_vars, p_attrs]
    last_call,         \* the last get_products_cached call or clear
    \* ---- the Streamlit application
    session_state,     \* st.session_state: [logged_in, store_url, consumer_key, consumer_secret]
    config_file,       \* ~/.hulara_config.json: the saved credentials, or NoConfig
    remote_reviews,    \* ids of the reviews in the remote store
    rendered,          \* widgets the last script run put on the page
    rerun_pending,     \* the last run ended in st.rerun()
    confirm_value,     \* widget state of the "cannot be undone" checkbox
    list_page,         \* widget state of the Product List page input
    uploaded_file,     \* rows of the file in the uploader (0: no file)
    last_run,          \* the last script run: its widget inputs, what it did
    \* ---- analytics_tab (locals of one run of the tab)
    analytics_products, \* `products`: the list get_all_products returned
    analytics_orders,  \* `orders`: the list get_orders returned
    analytics          \* what the tab computed from them, or NoAnalytics

apiVars == <<remote_products, per_page, page, all_products, pc, requests,
             sleeps, failed_at, api_call>>
cacheVars == <<cache, now, remote, last_call>>
uiVars == <<session_state, config_file, remote_reviews, rendered, rerun_pending,
            confirm_value, list_page, uploaded_file, last_run>>
anaVars == <<analytics_products, analytics_orders, analytics>>
vars == <<remote_products, per_page, page, all_products, pc, requests,
          sleeps, failed_at, api_call, cache, now, remote, last_call,
          session_state, config_file, remote_reviews, rendered, rerun_pending,
          confirm_value, list_page, uploaded_file, last_run,
          analytics_products, analytics_orders, analytics>>

\* --------------------------------------------------------------- arithmetic
Min(a, b) == IF a <= b THEN a ELSE b
CeilDiv(a, b) == (a + b - 1) \div b
IsPrefix(s, t) == Len(s) <= Len(t) /\ SubSeq(t, 1, Len(s)) = s

\* ---------------------------------------------------------------- transport
\* What one requests.<verb>(...) call can deliver: a response (any status,
\* any body, an optional X-WP-Total header) or a raised network exception.
NoHeader == -1
Exceptions == {"Timeout", "ConnectionError"}
Statuses == {HTTP_OK, HTTP_CREATED, 204, 400, 404, 500}
Bodies == [raw : 0..MaxBody, decodes : BOOLEAN]
NoBody == [raw |-> 0, decodes |-> FALSE]
Responses == [kind : {"response"}, status : Statuses, body : Bodies,
              total : {NoHeader, 0, 1}]
Raised(e) == [kind |-> e, status |-> 0, body |-> NoBody, total |-> NoHeader]
Outcomes == Responses \cup {Raised(e) : e \in Exceptions}
\* a 200 response whose body decodes to the empty list
EmptyPage == [kind |-> "response", status |-> HTTP_OK,
              body |-> [raw |-> 0, decodes |-> TRUE], total |-> 0]

\* response.text: the raw body; response.json(): the decoded body, or a
\* ValueError when the body is not JSON.  Both differ from each other.
Text(body) == <<"text", body.raw>>
Json(body) == <<"json", body.raw>>
StrExc(e) == <<"str(e)", e>>
JSONDecodeError == "JSONDecodeError"

\* ------------------------------------------------------------ return values
\* raised: the exception that escaped the helper, or "" when it returned.
\* flag:   the bool a mutation helper returns ("absent" for a read helper).
Return(flag, value) == [raised |-> "", flag |-> flag, ret |-> value]
Raise(e) == [raised |-> e, flag |-> "absent", ret |-> <<"none">>]
EmptyList == <<"list", <<>>>>
EmptyPair == <<"pair", <<>>, 0>>
None == <<"None">>
NoValue == <<"none">>

\* ------------------------------------------------------- API helper functions
\* Each helper is its try body evaluated on the outcome `out` of its single
\* requests call, followed by its except clause.

\* the undecorated body of get_products_cached (the live single-page fetch)
XWPTotal(out) == IF out.total = NoHeader THEN 0 ELSE out.total
get_products_live(out) ==
    IF out.kind # "response" THEN Return("absent", EmptyPair)        \* except Exception
    ELSE IF out.status = HTTP_OK
         THEN IF out.body.decodes
              THEN Return("absent", <<"pair", Json(out.body), XWPTotal(out)>>)
              ELSE Return("absent", EmptyPair)                       \* json() raised
         ELSE Return("absent", EmptyPair)

get_product_by_id(out) ==
    IF out.kind # "response" THEN Return("absent", None)             \* except:
    ELSE IF out.status = HTTP_OK
         THEN IF out.body.decodes THEN Return("absent", Json(out.body))
              ELSE Return("absent", None)
         ELSE Return("absent", None)

update_product_decodes_error(out) ==                \* json() on every status
    IF out.kind # "response" THEN Return("False", StrExc(out.kind))
    ELSE IF out.body.decodes THEN Return(IF out.status = HTTP_OK THEN "True" ELSE "False", Json(out.body))
         ELSE Return("False", StrExc(JSONDecodeError))
update_product(out) ==
    IF out.kind # "response" THEN Return("False", StrExc(out.kind))  \* except Exception as e
    ELSE IF out.status = HTTP_OK
         THEN IF out.body.decodes THEN Return("True", Json(out.body))
              ELSE Return("False", StrExc(JSONDecodeError))
         ELSE Return("False", Text(out.body))

delete_product(out) ==
    IF out.kind # "response" THEN Return("False", StrExc(out.kind))
    ELSE IF out.status = HTTP_OK
         THEN IF out.body.decodes THEN Return("True", Json(out.body))
              ELSE Return("False", StrExc(JSONDecodeError))
         ELSE Return("False", Text(out.body))

create_product(out) ==
    IF out.kind # "response" THEN Return("False", StrExc(out.kind))
    ELSE IF out.status = HTTP_CREATED
         THEN IF out.body.decodes THEN Return("True", Json(out.body))
              ELSE Return("False", StrExc(JSONDecodeError))
         ELSE Return("False", Text(out.body))

\* get_orders, get_product_variations and get_product_reviews have one shape:
\* a single request with per_page = 100, the decoded body on 200, [] otherwise.
ListOrEmpty(out) ==
    IF out.kind # "response" THEN Return("absent", EmptyList)        \* except:
    ELSE IF out.status = HTTP_OK
         THEN IF out.body.decodes THEN Return("absent", Json(out.body))
              ELSE Return("absent", EmptyList)
         ELSE Return("absent", EmptyList)
get_orders_no_try(out) ==                           \* the request outside the try
    IF out.kind # "response" THEN Raise(out.kind) ELSE ListOrEmpty(out)
get_orders(out) == ListOrEmpty(out)
get_product_variations(out) == ListOrEmpty(out)
get_product_reviews(out) == ListOrEmpty(out)

create_variation(out) ==
    IF out.kind # "response" THEN Return("False", StrExc(out.kind))
    ELSE IF out.status = HTTP_CREATED
         THEN IF out.body.decodes THEN Return("True", Json(out.body))
              ELSE Return("False", StrExc(JSONDecodeError))
         ELSE Return("False", Text(out.body))

\* update_review and delete_review return the bare bool and never decode.
update_review(out) ==
    IF out.kind # "response" THEN Return("False", NoValue)           \* except:
    ELSE Return(IF out.status = HTTP_OK THEN "True" ELSE "False", NoValue)
delete_review(out) ==
    IF out.kind # "response" THEN Return("False", NoValue)
    ELSE Return(IF out.status = HTTP_OK THEN "True" ELSE "False", NoValue)

\* ------------------------------------------------------------ get_all_products
\* The remote's answer to GET products?page=p&per_page=n.
RemotePage(coll, p, n) == SubSeq(coll, (p - 1) * n + 1, Min(p * n, Len(coll)))
Extend_Assign(all, products) == products            \* all_products = products
\* all_products.extend(products)
Extend(all, products) == all \o products
NextPage_Skip(p) == p + 2                           \* page += 2
\* page += 1
NextPage(p) == p + 1
\* `if not products: break`
IsLastPage(products) == products = <<>>

Collection(t) == [i \in 1..t |-> i]
Totals == 0..MaxT \cup {PerPageAll, PerPageAll + 1}
PageSizes == 1..MaxPerPage \cup {PerPageAll}

NoCall == [fn |-> "", out |-> Raised("none"), result |-> Return("absent", NoValue)]

\* the call starts: all_products = [], page = 1
get_all_products_begin ==
    /\ pc = "idle"
    /\ pc' = "loop"
    /\ page' = 1
    /\ all_products' = <<>>
    /\ UNCHANGED <<remote_products, per_page, requests, sleeps, failed_at, api_call>>
    /\ UNCHANGED <<cacheVars, uiVars, anaVars>>

\* (the iteration without time.sleep(0.5))
get_all_products_page_NoPause ==
    /\ pc = "loop"
    /\ LET products == RemotePage(remote_products, page, per_page) IN
        /\ ~IsLastPage(products)
        /\ all_products' = Extend(all_products, products)
        /\ page' = NextPage(page)
    /\ requests' = requests + 1
    /\ UNCHANGED <<remote_products, per_page, pc, failed_at, api_call, sleeps>>
    /\ UNCHANGED <<cacheVars, uiVars, anaVars>>
\* (the empty page taken for a page of products: the loop goes on)
get_all_products_empty_GoesOn ==
    /\ pc = "loop"
    /\ IsLastPage(RemotePage(remote_products, page, per_page))
    /\ page' = NextPage(page)
    /\ sleeps' = sleeps + 1
    /\ requests' = requests + 1
    /\ UNCHANGED <<remote_products, per_page, pc, failed_at, api_call, all_products>>
    /\ UNCHANGED <<cacheVars, uiVars, anaVars>>

\* one iteration: status 200 and a decoded non-empty page
get_all_products_page ==
    /\ pc = "loop"
    /\ LET products == RemotePage(remote_products, page, per_page) IN
        /\ ~IsLastPage(products)
        /\ all_products' = Extend(all_products, products)
        /\ page' = NextPage(page)
        /\ sleeps' = sleeps + 1
    /\ requests' = requests + 1
    /\ UNCHANGED <<remote_products, per_page, pc, failed_at, api_call>>
    /\ UNCHANGED <<cacheVars, uiVars, anaVars>>

\* one iteration: status 200 and an empty page: break, return all_products
get_all_products_empty ==
    /\ pc = "loop"
    /\ IsLastPage(RemotePage(remote_products, page, per_page))
    /\ requests' = requests + 1
    /\ pc' = "returned"
    /\ api_call' = [fn |-> "get_all_products", out |-> EmptyPage,
                    result |-> Return("absent", <<"list", all_products>>)]
    /\ UNCHANGED <<remote_products, per_page, page, all_products, sleeps, failed_at>>
    /\ UNCHANGED <<cacheVars, uiVars, anaVars>>

\* (the failing iteration returning [] instead of what was collected)
get_all_products_fail_drops ==
    /\ pc = "loop"
    /\ \E out \in Outcomes :
        /\ \/ out.kind # "response"
           \/ out.status # HTTP_OK
           \/ ~out.body.decodes
        /\ api_call' = [fn |-> "get_all_products", out |-> out,
                        result |-> Return("absent", EmptyList)]
    /\ requests' = requests + 1
    /\ failed_at' = requests + 1
    /\ pc' = "returned"
    /\ UNCHANGED <<remote_products, per_page, page, all_products, sleeps>>
    /\ UNCHANGED <<cacheVars, uiVars, anaVars>>

\* one iteration: the request fails (a status other than 200, a raised
\* exception, or a 200 whose body does not decode): break, return all_products
get_all_products_fail ==
    /\ pc = "loop"
    /\ \E out \in Outcomes :
        /\ \/ out.kind # "response"
           \/ out.status # HTTP_OK
           \/ ~out.body.decodes
        /\ api_call' = [fn |-> "get_all_products", out |-> out,
                        result |-> Return("absent", <<"list", all_products>>)]
    /\ requests' = requests + 1
    /\ failed_at' = requests + 1
    /\ pc' = "returned"
    /\ UNCHANGED <<remote_products, per_page, page, all_products, sleeps>>
    /\ UNCHANGED <<cacheVars, uiVars, anaVars>>

\* ----------------------------------------------------- one-shot helper calls
\* One call of a single-request helper: its one request is issued, the
\* outcome arrives and the helper returns.
Call(fn, out, result) == [fn |-> fn, out |-> out, result |-> result]
Returns ==
    /\ pc' = "returned"
    /\ requests' = requests + 1
    /\ UNCHANGED <<remote_products, per_page, page, all_products, sleeps, failed_at>>
    /\ UNCHANGED <<cacheVars, uiVars, anaVars>>

call_get_products_live ==
    /\ pc = "idle"
    /\ \E out \in Outcomes : api_call' = Call("get_products_cached", out, get_products_live(out))
    /\ Returns

call_get_product_by_id ==
    /\ pc = "idle"
    /\ \E out \in Outcomes : api_call' = Call("get_product_by_id", out, get_product_by_id(out))
    /\ Returns

call_update_product ==
    /\ pc = "idle"
    /\ \E out \in Outcomes : api_call' = Call("update_product", out, update_product(out))
    /\ Returns

call_delete_product ==
    /\ pc = "idle"
    /\ \E out \in Outcomes : api_call' = Call("delete_product", out, delete_product(out))
    /\ Returns

call_create_product ==
    /\ pc = "idle"
    /\ \E out \in Outcomes : api_call' = Call("create_product", out, create_product(out))
    /\ Returns

call_get_orders ==
    /\ pc = "idle"
    /\ \E out \in Outcomes : api_call' = Call("get_orders", out, get_orders(out))
    /\ Returns

call_get_product_variations ==
    /\ pc = "idle"
    /\ \E out \in Outcomes : api_call' = Call("get_product_variations", out, get_product_variations(out))
    /\ Returns

call_create_variation ==
    /\ pc = "idle"
    /\ \E out \in Outcomes : api_call' = Call("create_variation", out, create_variation(out))
    /\ Returns

call_get_product_reviews ==
    /\ pc = "idle"
    /\ \E out \in Outcomes : api_call' = Call("get_product_reviews", out, get_product_reviews(out))
    /\ Returns

call_update_review ==
    /\ pc = "idle"
    /\ \E out \in Outcomes : api_call' = Call("update_review", out, update_review(out))
    /\ Returns

call_delete_review ==
    /\ pc = "idle"
    /\ \E out \in Outcomes : api_call' = Call("delete_review", out, delete_review(out))
    /\ Returns

\* get_orders, get_product_variations or get_product_reviews against a remote
\* collection (remote_products stands for the orders, variations or reviews):
\* the one request, params per_page = 100 and no page, is answered 200 with
\* the first page, and the helper returns response.json()
ListFetchers == {"get_orders", "get_product_variations", "get_product_reviews"}
OkPage == [kind |-> "response", status |-> HTTP_OK,
           body |-> [raw |-> 0, decodes |-> TRUE], total |-> NoHeader]
call_list_fetcher ==
    /\ pc = "idle"
    /\ \E fn \in ListFetchers :
         api_call' = Call(fn, OkPage,
                          Return("absent", <<"list", RemotePage(remote_products, 1, PerPageOnce)>>))
    /\ Returns

\* the AI providers: the answer text on status 200, else an "Error: ..." text;
\* every exception of the try body (json() included) ends in `except`
AiHelpers == {"call_openai_api", "call_gemini_api"}
AiOutcomes == {out \in Outcomes : out.total = NoHeader}
ErrorText(x) == <<"Error", x>>
call_openai_api(out) ==
    IF out.kind # "response" THEN Return("absent", ErrorText(StrExc(out.kind)))
    ELSE IF out.status = HTTP_OK
         THEN IF out.body.decodes THEN Return("absent", Json(out.body))
              ELSE Return("absent", ErrorText(StrExc(JSONDecodeError)))
         ELSE Return("absent", ErrorText(Text(out.body)))
\* out: the answer to gemini-1.5-flash-latest; fallback: the answer to the
\* second request (gemini-pro), issued when the first status is not 200
GeminiFallsBack(out) == out.kind = "response" /\ out.status # HTTP_OK
call_gemini_api(out, fallback) ==
    IF out.kind # "response" THEN Return("absent", ErrorText(StrExc(out.kind)))
    ELSE IF out.status = HTTP_OK
         THEN IF out.body.decodes THEN Return("absent", Json(out.body))
              ELSE Return("absent", ErrorText(StrExc(JSONDecodeError)))
         ELSE call_openai_api(fallback)      \* the same branches on the second response

ask_openai ==
    /\ pc = "idle"
    /\ \E out \in AiOutcomes : api_call' = Call("call_openai_api", out, call_openai_api(out))
    /\ Returns
\* api_call.out keeps the answer to the first request
ask_gemini ==
    /\ pc = "idle"
    /\ \E out \in AiOutcomes :
         \E fallback \in (IF GeminiFallsBack(out) THEN AiOutcomes ELSE {out}) :
            /\ api_call' = Call("call_gemini_api", out, call_gemini_api(out, fallback))
            /\ requests' = requests + (IF GeminiFallsBack(out) THEN 2 ELSE 1)
    /\ pc' = "returned"
    /\ UNCHANGED <<remote_products, per_page, page, all_products, sleeps, failed_at>>
    /\ UNCHANGED <<cacheVars, uiVars, anaVars>>



\* ------------------------------------------------------------ the application
\* st.session_state before login and after Logout (every key deleted)
NoSession == [logged_in |-> FALSE, store_url |-> "", consumer_key |-> "",
              consumer_secret |-> ""]
NoConfig == [saved |-> FALSE, store_url |-> "", consumer_key |-> "",
             consumer_secret |-> ""]
NoRun == [log |-> <<>>, confirmed |-> FALSE,
          success_count |-> 0, error_count |-> 0, save_creds |-> FALSE,
          ticked |-> FALSE]
LoginWidgets == {<<"connect", 0>>}
UiIdle ==
    /\ session_state = NoSession
    /\ config_file = NoConfig
    /\ remote_reviews = 1..MaxReviews
    /\ rendered = LoginWidgets
    /\ rerun_pending = FALSE
    /\ confirm_value = FALSE
    /\ list_page = DefaultPage
    /\ uploaded_file = 0
    /\ last_run = NoRun

\* ---------------------------------------------------------- analytics_tab
\* A key a dict does not hold; a catalog_visibility outside the enum.
Missing == "<missing>"
Unknown == "featured"
VisibilityEnum == {"visible", "catalog", "search", "hidden"}
NoAnalytics == [done |-> FALSE]
AnaIdle ==
    /\ analytics_products = <<>>
    /\ analytics_orders = <<>>
    /\ analytics = NoAnalytics

\* vis = p.get('catalog_visibility', 'visible')
CatalogVisibility_NoDefault(p) == p.catalog_visibility
CatalogVisibility(p) ==
    IF p.catalog_visibility = Missing THEN "visible" ELSE p.catalog_visibility
\* visibility_counts after the loop `for p in products`: a dict, its keys the
\* DOMAIN; visibility_counts[vis] = visibility_counts.get(vis, 0) + 1
RECURSIVE visibility_counts(_)
visibility_counts(ps) ==
    IF ps = <<>> THEN [k \in VisibilityEnum |-> 0]
    ELSE LET c == visibility_counts(SubSeq(ps, 1, Len(ps) - 1))
             vis == CatalogVisibility(ps[Len(ps)])
             old == IF vis \in DOMAIN c THEN c[vis] ELSE 0
         IN [k \in DOMAIN c \cup {vis} |-> IF k = vis THEN old + 1 ELSE c[k]]

\* float(o.get('total', 0)); totals are whole amounts here
NoTotal == -1
OrderTotal(o) == IF o.total = NoTotal THEN 0 ELSE o.total
RECURSIVE total_revenue(_)
total_revenue(os) ==
    IF os = <<>> THEN 0
    ELSE total_revenue(SubSeq(os, 1, Len(os) - 1)) + OrderTotal(os[Len(os)])
\* a / b of Python, exactly: quotient and remainder, or the exception
Quotient(a, b) ==
    IF b = 0 THEN [raised |-> "ZeroDivisionError", q |-> 0, r |-> 0]
    ELSE [raised |-> "", q |-> a \div b, r |-> a % b]
Zero == [raised |-> "", q |-> 0, r |-> 0]
avg_order_NoGuard(os) == Quotient(total_revenue(os), Len(os))
\* avg_order = total_revenue / len(orders) if orders else 0
avg_order(os) ==
    IF os # <<>> THEN Quotient(total_revenue(os), Len(os)) ELSE Zero

\* `for order in orders: for item in order.get('line_items', [])`
RECURSIVE LineItems(_)
LineItems(os) ==
    IF os = <<>> THEN <<>>
    ELSE LineItems(SubSeq(os, 1, Len(os) - 1)) \o os[Len(os)].line_items
\* product_sales: a dict, kept as its (pid, quantity) items in insertion order;
\* product_sales[pid] = product_sales.get(pid, 0) + item.get('quantity', 0)
RECURSIVE SalesOf(_)
SalesOf(items) ==
    IF items = <<>> THEN <<>>
    ELSE LET sales == SalesOf(SubSeq(items, 1, Len(items) - 1))
             item == items[Len(items)]
             at == {i \in 1..Len(sales) : sales[i].pid = item.product_id}
         IN IF at = {} THEN Append(sales, [pid |-> item.product_id, qty |-> item.quantity])
            ELSE [i \in 1..Len(sales) |->
                    IF i \in at THEN [sales[i] EXCEPT !.qty = @ + item.quantity]
                    ELSE sales[i]]
product_sales(os) == SalesOf(LineItems(os))
\* sorted(..., key=lambda x: x[1], reverse=True): stable, so x goes behind
\* every item already placed whose quantity is not smaller
InsertDesc_Unstable(sorted, x) ==
    LET k == Cardinality({i \in 1..Len(sorted) : sorted[i].qty > x.qty})
    IN SubSeq(sorted, 1, k) \o <<x>> \o SubSeq(sorted, k + 1, Len(sorted))
InsertDesc(sorted, x) ==
    LET k == Cardinality({i \in 1..Len(sorted) : sorted[i].qty >= x.qty})
    IN SubSeq(sorted, 1, k) \o <<x>> \o SubSeq(sorted, k + 1, Len(sorted))
RECURSIVE SortedDesc(_)
SortedDesc(sales) ==
    IF sales = <<>> THEN <<>>
    ELSE InsertDesc(SortedDesc(SubSeq(sales, 1, Len(sales) - 1)), sales[Len(sales)])
\* sorted_sales = sorted(product_sales.items(), ...)[:10]
sorted_sales(os) ==
    SubSeq(SortedDesc(product_sales(os)), 1, Min(TopN, Len(product_sales(os))))

\* the tab computes its metrics from the two lists
analytics_tab_compute ==
    /\ ~analytics.done
    /\ analytics' = [done |-> TRUE,
                     visibility_counts |-> visibility_counts(analytics_products),
                     total_revenue |-> total_revenue(analytics_orders),
                     avg_order |-> avg_order(analytics_orders),
                     product_sales |-> product_sales(analytics_orders),
                     sorted_sales |-> sorted_sales(analytics_orders)]
    /\ UNCHANGED <<analytics_products, analytics_orders>>
    /\ UNCHANGED <<apiVars, cacheVars, uiVars>>

\* the lists the tab is run on
VisValues == VisibilityEnum \cup {Missing, Unknown}
ExampleProducts ==
    <<[catalog_visibility |-> "visible"], [catalog_visibility |-> "hidden"],
      [catalog_visibility |-> "catalog"], [catalog_visibility |-> "search"],
      [catalog_visibility |-> "visible"], [catalog_visibility |-> Missing]>>


\* ------------------------------------------------ the remote store's products
\* rev counts the changes the store's data went through; the product the UI
\* works on has a status, a type, a number of variations and attributes.
RemoteInit == [rev |-> 0, p_status |-> "publish", p_type |-> "simple",
               p_vars |-> 0, p_attrs |-> TRUE]
\* GET products lists what is published
Listed(r) == r.p_status = "publish"

\* ------------------------------------------------------- @st.cache_data(ttl)
\* The key of an entry is the argument tuple of the call.
Key(url, ck, cs, p, n) ==
    [store_url |-> url, consumer_key |-> ck, consumer_secret |-> cs,
     page |-> p, per_page |-> n]
NoKey == Key("", "", "", 0, 0)
EmptyCache == <<>>
\* the remote's 200 answer to the request of key k: the page of the current
\* product list, with the X-WP-Total header
ListBody(r, k) == [raw |-> <<r.rev, Listed(r) /\ k.page = 1, k.page, k.per_page>>,
                   decodes |-> TRUE]
OkList(r, k) == [kind |-> "response", status |-> HTTP_OK, body |-> ListBody(r, k),
                 total |-> IF Listed(r) THEN 1 ELSE 0]
ListOutcomes(r, k) ==
    {OkList(r, k),
     [kind |-> "response", status |-> 500, body |-> NoBody, total |-> NoHeader],
     Raised("Timeout")}

\* an entry can be returned while its age is under the ttl
Fresh_ShortTTL(c, k, t) == k \in DOMAIN c /\ (t - c[k].stored_at) * 2 < TTL
Fresh(c, k, t) == k \in DOMAIN c /\ t - c[k].stored_at < TTL
\* (an expired entry kept instead of being replaced)
Store_KeepsOld(c, k, value, t) ==
    [x \in DOMAIN c \cup {k} |->
        IF x \in DOMAIN c THEN c[x]
        ELSE [value |-> value, stored_at |-> t, outdated |-> FALSE]]
\* storing the value of a live call under its key, with the time of the call
Store(c, k, value, t) ==
    [x \in DOMAIN c \cup {k} |->
        IF x = k THEN [value |-> value, stored_at |-> t, outdated |-> FALSE]
        ELSE c[x]]
\* get_products_cached.clear()
Clear_Noop(c) == c
Clear(c) == EmptyCache

\* One call get_products_cached(*k) at time t, the live request (if one is
\* made) having outcome out: the value returned, whether a request was issued,
\* and the cache after the call.
CachedCall(c, k, t, out) ==
    IF Fresh(c, k, t)
    THEN [result |-> c[k].value, live |-> FALSE, cache |-> c,
          outdated |-> c[k].outdated]
    ELSE [result |-> get_products_live(out).ret, live |-> TRUE,
          cache |-> Store(c, k, get_products_live(out).ret, t),
          outdated |-> FALSE]

\* last_call records the last operation on the cached function: a call (its
\* key, whether it issued a request, what it returned, whether the operation
\* before it was a clear) or a clear (the keys whose fresh entries it dropped).
NoCachedCall == [op |-> "none", key |-> NoKey, live |-> FALSE, result |-> NoValue,
                 after_clear |-> FALSE, dropped |-> {}]
CacheIdle ==
    /\ cache = EmptyCache
    /\ now = 0
    /\ remote = RemoteInit
    /\ last_call = NoCachedCall

Store1 == "https://s1"
CacheKeys ==
    {Key(Store1, "ck", "cs", 1, PerPageListing)}
        \cup {Key(Store1, "ck", "cs", p, PerPageList) : p \in 1..MaxListPage}

\* a script run calls get_products_cached(*k)
call_get_products_cached ==
    /\ \E k \in CacheKeys : \E out \in ListOutcomes(remote, k) :
         LET r == CachedCall(cache, k, now, out) IN
           /\ cache' = r.cache
           /\ last_call' = [op |-> "call", key |-> k, live |-> r.live,
                            result |-> r.result,
                            after_clear |-> last_call.op = "clear",
                            dropped |-> last_call.dropped \cap {k}]
    /\ UNCHANGED <<now, remote>>
    /\ UNCHANGED <<apiVars, uiVars, anaVars>>

\* a handler calls get_products_cached.clear()
call_clear ==
    /\ cache' = Clear(cache)
    /\ last_call' = [op |-> "clear", key |-> NoKey, live |-> FALSE, result |-> NoValue,
                     after_clear |-> FALSE,
                     dropped |-> {k \in DOMAIN cache : Fresh(cache, k, now)}]
    /\ UNCHANGED <<now, remote>>
    /\ UNCHANGED <<apiVars, uiVars, anaVars>>

\* time passes
Tick ==
    /\ now + TickStep <= MaxClock
    /\ now' = now + TickStep
    /\ UNCHANGED <<cache, remote, last_call>>
    /\ UNCHANGED <<apiVars, uiVars, anaVars>>

\* the store's data changes (this client or another one wrote to it)
remote_changes ==
    /\ remote.rev < MaxRev
    /\ remote' = [remote EXCEPT !.rev = @ + 1]
    /\ UNCHANGED <<cache, now, last_call>>
    /\ UNCHANGED <<apiVars, uiVars, anaVars>>

ApiIdle ==
    /\ remote_products = <<>>
    /\ per_page = PerPageAll
    /\ page = 1
    /\ all_products = <<>>
    /\ pc = "idle"
    /\ requests = 0
    /\ sleeps = 0
    /\ failed_at = 0
    /\ api_call = NoCall

InitCache == CacheIdle /\ ApiIdle /\ UiIdle /\ AnaIdle
NextCache ==
    \/ call_get_products_cached
    \/ call_clear
    \/ Tick
    \/ remote_changes
SpecCache == InitCache /\ [][NextCache]_vars


\* ------------------------------------------------------------- script runs
\* Streamlit runs the whole script once per user interaction.  A button reads
\* True only in the run its click triggered, and only where the script
\* renders it; a widget that a run does not render loses its state.
W(name, arg) == <<name, arg>>
Ev(w) == [w |-> w[1], arg |-> w[2]]

SessionCreds == [store_url |-> session_state.store_url,
                 consumer_key |-> session_state.consumer_key,
                 consumer_secret |-> session_state.consumer_secret]
\* one request (or cache operation) of a run, as the run's log keeps it
\* the status of the response, NoStatus when there is none
NoStatus == 0
StatusOf(out) == IF out.kind = "response" THEN out.status ELSE NoStatus
Entry(fn, creds, force, live, outdated, flag) ==
    [fn |-> fn, creds |-> creds, force |-> force, live |-> live,
     outdated |-> outdated, flag |-> flag, status |-> NoStatus]
Logged(rs, e) == [rs EXCEPT !.log = Append(@, e)]
Rendered(rs, ws) == [rs EXCEPT !.rendered = @ \cup ws]

\* the run state at the top of main() when logged in
RunStart(cv, lp, up) ==
    [cache |-> cache, remote |-> remote, reviews |-> remote_reviews,
     log |-> <<>>, rendered |-> {W("logout", 0)}, stop |-> FALSE,
     confirmed |-> FALSE, success_count |-> 0, error_count |-> 0,
     cv |-> cv, list_page |-> lp, uploaded_file |-> up]

\* ---- the store's answers to the mutations
Resp(status, decodes) ==
    [kind |-> "response", status |-> status,
     body |-> [raw |-> 0, decodes |-> decodes], total |-> NoHeader]
ExpectedStatus(fn) ==
    IF fn \in {"create_product", "create_variation"} THEN HTTP_CREATED ELSE HTTP_OK
Applied(fn, out) == out.kind = "response" /\ out.status = ExpectedStatus(fn)
\* what the store does when it accepts the request (an edit or a created
\* product changes none of the fields kept here)
Effect(r, effect) ==
    CASE effect = "promote" -> [r EXCEPT !.p_type = "variable"]
      [] effect = "add_variation" -> [r EXCEPT !.p_vars = @ + 1]
      [] effect = "trash" -> [r EXCEPT !.p_status = "trash"]
      [] effect = "delete" -> [r EXCEPT !.p_status = "deleted"]
      [] OTHER -> r
\* (the store accepts at most MaxVariations variations)
MutOutcomes(r, fn, effect) ==
    {out \in {Resp(ExpectedStatus(fn), TRUE), Resp(ExpectedStatus(fn), FALSE),
              Resp(500, TRUE), Raised("Timeout")} :
        (effect = "add_variation" /\ r.p_vars >= MaxVariations) => ~Applied(fn, out)}
HelperResult(fn, out) ==
    CASE fn = "update_product" -> update_product(out)
      [] fn = "delete_product" -> delete_product(out)
      [] fn = "create_product" -> create_product(out)
      [] fn = "create_variation" -> create_variation(out)
      [] fn = "update_review" -> update_review(out)
      [] fn = "delete_review" -> delete_review(out)

\* every entry stored before a mutation that its helper reported successful
\* holds data from before that mutation
MarkOutdated(c) == [k \in DOMAIN c |-> [c[k] EXCEPT !.outdated = TRUE]]

\* a product or variation mutation helper called with the session's
\* credentials, its request having outcome out
CallMutation(rs, fn, force, effect, out) ==
    LET res == HelperResult(fn, out) IN
    [rs EXCEPT !.remote = IF Applied(fn, out) THEN Effect(@, effect) ELSE @,
               !.cache = IF res.flag = "True" THEN MarkOutdated(@) ELSE @,
               !.log = Append(@, [Entry(fn, SessionCreds, force, TRUE, FALSE, res.flag)
                                     EXCEPT !.status = StatusOf(out)])]
LastFlag(rs) == rs.log[Len(rs.log)].flag
\* `if success: st.success(...)` / `else: st.error(...)` after a mutation
Notice_Silent(rs) == rs
Notice(rs) ==
    Logged(rs, Entry(IF LastFlag(rs) = "True" THEN "st.success" ELSE "st.error",
                     SessionCreds, FALSE, FALSE, FALSE, LastFlag(rs)))
\* get_products_cached.clear()
ClearCache(rs) ==
    [rs EXCEPT !.cache = Clear(@),
               !.log = Append(@, Entry("clear", SessionCreds, FALSE, FALSE, FALSE, "absent"))]
Rerun(rs) == [rs EXCEPT !.stop = TRUE]

\* get_products_cached(store_url, consumer_key, consumer_secret, page, per_page)
\* called by a tab: the run after the call, and the (products, total) returned
CachedFetch(rs, p, n) ==
    LET k == Key(session_state.store_url, session_state.consumer_key,
                 session_state.consumer_secret, p, n)
        outs == IF Fresh(rs.cache, k, now) THEN {OkList(rs.remote, k)}
                ELSE ListOutcomes(rs.remote, k)
    IN {LET c == CachedCall(rs.cache, k, now, out) IN
          [rs |-> [rs EXCEPT !.cache = c.cache,
                             !.log = Append(@, Entry("get_products_cached", SessionCreds,
                                                     FALSE, c.live, c.outdated, "absent"))],
           result |-> c.result]
        : out \in outs}
\* `if not products`
NoProducts(result) == result[2] = <<>> \/ ~result[2][2][2]

\* ---- listing_update_tab
ProductBody(r) == [raw |-> [type |-> r.p_type, attributes |-> r.p_attrs], decodes |-> TRUE]
ByIdOutcomes(r) ==
    (IF r.p_status = "deleted"
     THEN {[kind |-> "response", status |-> 404, body |-> NoBody, total |-> NoHeader]}
     ELSE {[kind |-> "response", status |-> HTTP_OK, body |-> ProductBody(r),
            total |-> NoHeader]})
        \cup {Raised("Timeout")}

\* tab1: the update_form submit
UpdateForm(rs) ==
    UNION {LET r1 == CallMutation(rs, "update_product", FALSE, "edit", out) IN
             {IF LastFlag(r1) = "True" THEN ClearCache(Notice(r1)) ELSE Notice(r1)}
           : out \in MutOutcomes(rs.remote, "update_product", "edit")}

\* tab3: the add_variation_form submit
CreateVariation(rs) ==
    UNION {LET r1 == CallMutation(rs, "create_variation", FALSE, "add_variation", out) IN
             {IF LastFlag(r1) = "True" THEN ClearCache(Notice(r1)) ELSE Notice(r1)}
           : out \in MutOutcomes(rs.remote, "create_variation", "add_variation")}
AddVariationForm(rs, product) ==
    IF product.type # "variable"
    THEN UNION {CreateVariation(CallMutation(rs, "update_product", FALSE, "promote", out))
                : out \in MutOutcomes(rs.remote, "update_product", "promote")}
    ELSE CreateVariation(rs)

\* tab4: Move to Trash
TrashBtn(rs) ==
    UNION {LET r1 == CallMutation(rs, "delete_product", FALSE, "trash", out) IN
             {IF LastFlag(r1) = "True" THEN Rerun(ClearCache(Notice(r1))) ELSE Notice(r1)}
           : out \in MutOutcomes(rs.remote, "delete_product", "trash")}
\* tab4: Delete Permanently: the checkbox is rendered inside the branch
PermanentBtn(rs) ==
    LET r0 == Rendered(rs, {W("confirm", 0)}) IN
    IF r0.cv
    THEN UNION {LET r1 == CallMutation([r0 EXCEPT !.confirmed = TRUE],
                                       "delete_product", TRUE, "delete", out) IN
                  {IF LastFlag(r1) = "True" THEN Rerun(ClearCache(Notice(r1))) ELSE Notice(r1)}
                : out \in MutOutcomes(rs.remote, "delete_product", "delete")}
    ELSE {r0}

ListingSelected(rs, ev) ==
    UNION {LET res == get_product_by_id(out).ret
               r1 == Logged(rs, Entry("get_product_by_id", SessionCreds, FALSE, TRUE, FALSE, "absent"))
           IN IF res = None THEN {r1}
              ELSE LET product == res[2]
                       r2 == IF product.type = "variable"
                             THEN Logged(r1, Entry("get_product_variations", SessionCreds,
                                                   FALSE, TRUE, FALSE, "absent"))
                             ELSE r1
                       r3 == Rendered(r2, {W("update_form", 0), W("trash_btn", 0),
                                           W("permanent_btn", 0)}
                                          \cup IF product.attributes
                                               THEN {W("add_variation_form", 0)} ELSE {})
                   IN CASE ev.w = "update_form" -> UpdateForm(r3)
                        [] ev.w = "add_variation_form" /\ product.attributes ->
                               AddVariationForm(r3, product)
                        [] ev.w = "trash_btn" -> TrashBtn(r3)
                        [] ev.w = "permanent_btn" -> PermanentBtn(r3)
                        [] OTHER -> {r3}
           : out \in ByIdOutcomes(rs.remote)}
ListingResult(rs, result, ev) ==
    IF NoProducts(result) THEN {rs} ELSE ListingSelected(rs, ev)
listing_update_tab(rs, ev) ==
    UNION {ListingResult(f.rs, f.result, ev) : f \in CachedFetch(rs, 1, PerPageListing)}

\* ---- product_list_tab
product_list_tab(rs) ==
    {f.rs : f \in CachedFetch(Rendered(rs, {W("page_input", 0)}), rs.list_page, PerPageList)}

\* ---- bulk_upload_tab
RECURSIVE UploadRows(_, _)
UploadRows(rs, n) ==
    IF n = 0 THEN {rs}
    ELSE UNION {LET r1 == CallMutation(rs, "create_product", FALSE, "create", out) IN
                  UploadRows(IF LastFlag(r1) = "True"
                             THEN [r1 EXCEPT !.success_count = @ + 1]
                             ELSE [r1 EXCEPT !.error_count = @ + 1], n - 1)
                : out \in MutOutcomes(rs.remote, "create_product", "create")}
bulk_upload_tab(rs, ev) ==
    LET r0 == Rendered(rs, {W("uploader", 0)}) IN
    IF rs.uploaded_file = 0 THEN {r0}
    ELSE LET r1 == Rendered(r0, {W("upload_btn", 0)}) IN
         IF ev.w = "upload_btn"
         THEN {ClearCache(r) : r \in UploadRows(r1, rs.uploaded_file)}
         ELSE {r1}

\* ---- analytics_tab: reads only
analytics_tab(rs) ==
    {Logged(Logged(rs, Entry("get_all_products", SessionCreds, FALSE, TRUE, FALSE, "absent")),
            Entry("get_orders", SessionCreds, FALSE, TRUE, FALSE, "absent"))}

\* ---- reviews_tab
ReviewOutcomes == {Resp(HTTP_OK, TRUE), Resp(500, TRUE), Raised("Timeout")}
ReviewCall(rs, fn, force, id, out) ==
    LET res == HelperResult(fn, out)
        r1 == [rs EXCEPT !.reviews = IF fn = "delete_review" /\ Applied(fn, out)
                                     THEN @ \ {id} ELSE @,
                         !.log = Append(@, Entry(fn, SessionCreds, force, TRUE, FALSE, res.flag))]
    IN IF res.flag = "True" THEN Rerun(r1) ELSE r1
\* delete_review(..., review['id']): force is left at its default, True
DeleteReviewForce == TRUE
ReviewButtons(rs, ev) ==
    CASE ev.w = "approve" -> {ReviewCall(rs, "update_review", FALSE, ev.arg, out) : out \in ReviewOutcomes}
      [] ev.w = "spam" -> {ReviewCall(rs, "update_review", FALSE, ev.arg, out) : out \in ReviewOutcomes}
      [] ev.w = "delete_review" ->
             {ReviewCall(rs, "delete_review", DeleteReviewForce, ev.arg, out) : out \in ReviewOutcomes}
      [] OTHER -> {rs}
reviews_tab(rs, ev) ==
    UNION {LET reviews == IF out.kind = "response" /\ out.status = HTTP_OK
                          THEN rs.reviews ELSE {}
               r1 == Logged(rs, Entry("get_product_reviews", SessionCreds, FALSE, TRUE, FALSE, "absent"))
           IN IF reviews = {} THEN {r1}
              ELSE LET r2 == Rendered(r1, UNION {{W("approve", id), W("spam", id),
                                                  W("delete_review", id)} : id \in reviews})
                   IN IF ev.arg \in reviews THEN ReviewButtons(r2, ev) ELSE {r2}
           : out \in {Resp(HTTP_OK, TRUE), Raised("Timeout")}}

\* ---- main(), logged in, the Logout button not pressed
\* the tabs run one after the other; st.rerun() in a tab ends the run there
MainTabs(ev, cv, lp, up) ==
    LET tab0 == listing_update_tab(RunStart(cv, lp, up), ev)
        tab1 == UNION {IF r.stop THEN {r} ELSE product_list_tab(r) : r \in tab0}
        tab2 == UNION {IF r.stop THEN {r} ELSE bulk_upload_tab(r, ev) : r \in tab1}
        tab3 == UNION {IF r.stop THEN {r} ELSE analytics_tab(r) : r \in tab2}
    IN UNION {IF r.stop THEN {r} ELSE reviews_tab(r, ev) : r \in tab3}

\* the run ends: what it did becomes the state
Commit(rs, ev) ==
    /\ cache' = rs.cache
    /\ remote' = rs.remote
    /\ remote_reviews' = rs.reviews
    /\ rendered' = rs.rendered
    /\ rerun_pending' = rs.stop
    /\ confirm_value' = (W("confirm", 0) \in rs.rendered /\ rs.cv)
    /\ list_page' = rs.list_page
    /\ uploaded_file' = rs.uploaded_file
    /\ last_run' = [log |-> rs.log, confirmed |-> rs.confirmed,
                    success_count |-> rs.success_count, error_count |-> rs.error_count,
                    save_creds |-> FALSE, ticked |-> rs.cv]
    /\ UNCHANGED <<session_state, config_file, now, last_call>>
    /\ UNCHANGED <<apiVars, anaVars>>

\* a run triggered by a click on widget w (or by st.rerun(), w = <<"rerun", 0>>)
Run(w) ==
    \E rs \in MainTabs(Ev(w), confirm_value, list_page, uploaded_file) : Commit(rs, Ev(w))
CanClick(w) == session_state.logged_in /\ ~rerun_pending /\ w \in rendered

run_rerun ==
    /\ session_state.logged_in /\ rerun_pending
    /\ Run(W("rerun", 0))
run_update_form == CanClick(W("update_form", 0)) /\ Run(W("update_form", 0))
run_add_variation_form ==
    CanClick(W("add_variation_form", 0)) /\ Run(W("add_variation_form", 0))
run_trash_btn == CanClick(W("trash_btn", 0)) /\ Run(W("trash_btn", 0))
run_permanent_btn == CanClick(W("permanent_btn", 0)) /\ Run(W("permanent_btn", 0))
\* the user ticks the checkbox: its state is True in the run this triggers
run_confirm ==
    /\ CanClick(W("confirm", 0))
    /\ \E rs \in MainTabs(Ev(W("confirm", 0)), TRUE, list_page, uploaded_file) :
          Commit(rs, Ev(W("confirm", 0)))
run_uploader ==
    /\ CanClick(W("uploader", 0))
    /\ \E n \in 0..MaxRows :
         \E rs \in MainTabs(Ev(W("uploader", 0)), confirm_value, list_page, n) :
            Commit(rs, Ev(W("uploader", 0)))
run_upload_btn == CanClick(W("upload_btn", 0)) /\ Run(W("upload_btn", 0))
run_approve == \E id \in 1..MaxReviews : CanClick(W("approve", id)) /\ Run(W("approve", id))
run_spam == \E id \in 1..MaxReviews : CanClick(W("spam", id)) /\ Run(W("spam", id))
run_delete_review ==
    \E id \in 1..MaxReviews : CanClick(W("delete_review", id)) /\ Run(W("delete_review", id))

\* (Logout resetting logged_in only)
run_logout_KeepsCreds ==
    /\ CanClick(W("logout", 0))
    /\ session_state' = [session_state EXCEPT !.logged_in = FALSE]
    /\ rerun_pending' = TRUE
    /\ rendered' = {W("logout", 0)}
    /\ confirm_value' = FALSE
    /\ last_run' = NoRun
    /\ list_page' = DefaultPage
    /\ uploaded_file' = 0
    /\ UNCHANGED <<config_file, remote_reviews>>
    /\ UNCHANGED <<cacheVars, apiVars, anaVars>>
\* the Logout button: every key of st.session_state is deleted, st.rerun()
run_logout ==
    /\ CanClick(W("logout", 0))
    /\ session_state' = NoSession
    /\ rerun_pending' = TRUE
    /\ rendered' = {W("logout", 0)}
    /\ confirm_value' = FALSE
    /\ last_run' = NoRun
    /\ list_page' = DefaultPage
    /\ uploaded_file' = 0
    /\ UNCHANGED <<config_file, remote_reviews>>
    /\ UNCHANGED <<cacheVars, apiVars, anaVars>>

\* ---- login_page
Store1Slash == "https://s1/"
UrlInputs == {"", "/", Store1, Store1Slash}
\* store_url.rstrip('/')
RStrip(url) == CASE url = "/" -> "" [] url = Store1Slash -> Store1 [] OTHER -> url
\* requests refuses a URL without a scheme; a real URL is answered, or not
ConnectOutcomes_AnyUrl(url) ==       \* a URL of slashes only answered too
    {Resp(HTTP_OK, TRUE), Resp(401, TRUE), Raised("Timeout")}
ConnectOutcomes(url) ==
    IF url \in {Store1, Store1Slash}
    THEN {Resp(HTTP_OK, TRUE), Resp(401, TRUE), Raised("Timeout")}
    ELSE {Raised("MissingSchema")}
\* `if response.status_code == 200` of the connection test
Connected_AnyResponse(out) == out.kind = "response"
Connected(out) == out.kind = "response" /\ out.status = HTTP_OK
LoginPageWidgets(cfg) ==
    {W("connect", 0)} \cup IF cfg.saved THEN {W("delete_saved", 0)} ELSE {}
CanClickLogin(w) == ~session_state.logged_in /\ ~rerun_pending /\ w \in rendered

\* the run after Logout or a deleted config: the login page is rendered
run_login_page ==
    /\ ~session_state.logged_in /\ rerun_pending
    /\ rerun_pending' = FALSE
    /\ rendered' = LoginPageWidgets(config_file)
    /\ last_run' = NoRun
    /\ UNCHANGED <<session_state, config_file, remote_reviews, confirm_value,
                   list_page, uploaded_file>>
    /\ UNCHANGED <<cacheVars, apiVars, anaVars>>

\* the Connect button
run_connect ==
    /\ CanClickLogin(W("connect", 0))
    /\ \E store_url \in UrlInputs, consumer_key \in {"", "ck"},
          consumer_secret \in {"", "cs"}, save_creds \in BOOLEAN :
         LET creds == [store_url |-> store_url, consumer_key |-> consumer_key,
                       consumer_secret |-> consumer_secret] IN
         IF store_url # "" /\ consumer_key # "" /\ consumer_secret # ""
         THEN \E out \in ConnectOutcomes(store_url) :
                /\ last_run' = [NoRun EXCEPT
                                  !.log = <<[Entry("connect", creds, FALSE, TRUE, FALSE, "absent")
                                                EXCEPT !.status = StatusOf(out)]>>,
                                  !.save_creds = save_creds]
                /\ IF Connected(out)
                   THEN /\ session_state' = [logged_in |-> TRUE,
                                             store_url |-> RStrip(store_url),
                                             consumer_key |-> consumer_key,
                                             consumer_secret |-> consumer_secret]
                        \* save_credentials can raise (the file cannot be
                        \* written): `except Exception` shows the error, the
                        \* session stays logged in and the next run shows the tabs
                        /\ \E written \in (IF save_creds THEN BOOLEAN ELSE {FALSE}) :
                             config_file' = IF written
                                            THEN [saved |-> TRUE, store_url |-> store_url,
                                                  consumer_key |-> consumer_key,
                                                  consumer_secret |-> consumer_secret]
                                            ELSE config_file
                        /\ rerun_pending' = TRUE
                   ELSE UNCHANGED <<session_state, config_file, rerun_pending>>
         ELSE /\ last_run' = [NoRun EXCEPT !.save_creds = save_creds]
              /\ UNCHANGED <<session_state, config_file, rerun_pending>>
    /\ rendered' = LoginPageWidgets(config_file)
    /\ UNCHANGED <<remote_reviews, confirm_value, list_page, uploaded_file>>
    /\ UNCHANGED <<cacheVars, apiVars, anaVars>>

\* the Delete Saved button
run_delete_saved ==
    /\ CanClickLogin(W("delete_saved", 0))
    /\ config_file' = NoConfig
    /\ rerun_pending' = TRUE
    /\ rendered' = {W("connect", 0)}
    /\ last_run' = NoRun
    /\ UNCHANGED <<session_state, remote_reviews, confirm_value, list_page, uploaded_file>>
    /\ UNCHANGED <<cacheVars, apiVars, anaVars>>

Init == CacheIdle /\ ApiIdle /\ UiIdle /\ AnaIdle
\* Every run executes all the tabs; the specifications differ in the widgets
\* the user works with.
\* sessions of login, logout and the Listing Update tab
Next ==
    \/ run_connect
    \/ run_delete_saved
    \/ run_login_page
    \/ run_logout
    \/ run_rerun
    \/ run_update_form
    \/ run_add_variation_form
    \/ run_trash_btn
    \/ run_permanent_btn
    \/ run_confirm
Spec == Init /\ [][Next]_vars
\* sessions of the Reviews tab
NextReviews ==
    \/ run_connect
    \/ run_rerun
    \/ run_approve
    \/ run_spam
    \/ run_delete_review
SpecReviews == Init /\ [][NextReviews]_vars
\* sessions of the Bulk Upload tab
NextBulk ==
    \/ run_connect
    \/ run_rerun
    \/ run_uploader
    \/ run_upload_btn
SpecBulk == Init /\ [][NextBulk]_vars

\* the Analytics tab run once on given lists of products and orders
InitAnalytics ==
    LET ProductLists ==
            UNION {[1..n -> [catalog_visibility : VisValues]] : n \in 0..MaxProducts}
                \cup {ExampleProducts}
        TotalsOrders ==
            UNION {[1..n -> [total : {NoTotal, 0, 100, 300}, line_items : {<<>>}]]
                   : n \in 0..MaxOrders}
        ShortItems ==
            UNION {[1..n -> [product_id : 1..MaxPid, quantity : 0..MaxQty]]
                   : n \in 0..MaxItems}
        \* n line items: of n products with quantities equal, cycling or
        \* growing, or of four products that come again and again
        LongItems ==
            {[i \in 1..n |-> [product_id |-> IF pattern = 4 THEN 1 + (i % 4) ELSE i,
                              quantity |-> CASE pattern = 1 -> 1
                                             [] pattern = 3 -> i
                                             [] OTHER -> i % 3]]
             : n \in 0..MaxLongItems, pattern \in 1..4}
        \* two orders holding the line items il, the first one the first k
        ItemsOrders ==
            UNION {{<<[total |-> 100, line_items |-> SubSeq(il, 1, k)],
                      [total |-> 300, line_items |-> SubSeq(il, k + 1, Len(il))]>>
                    : k \in 0..Len(il)} : il \in ShortItems \cup LongItems}
    IN /\ \/ analytics_products \in ProductLists /\ analytics_orders = <<>>
          \/ analytics_products = <<>> /\ analytics_orders \in TotalsOrders \cup ItemsOrders
       /\ analytics = NoAnalytics
       /\ ApiIdle /\ CacheIdle /\ UiIdle
SpecAnalytics == InitAnalytics /\ [][analytics_tab_compute]_vars

InitApi ==
    /\ remote_products \in {Collection(t) : t \in Totals}
    /\ per_page \in PageSizes
    /\ page = 1
    /\ all_products = <<>>
    /\ pc = "idle"
    /\ requests = 0
    /\ sleeps = 0
    /\ failed_at = 0
    /\ api_call = NoCall
    /\ CacheIdle
    /\ UiIdle
    /\ AnaIdle

NextApi ==
    \/ get_all_products_begin
    \/ get_all_products_page
    \/ get_all_products_empty
    \/ get_all_products_fail
    \/ call_get_products_live
    \/ call_get_product_by_id
    \/ call_update_product
    \/ call_delete_product
    \/ call_create_product
    \/ call_get_orders
    \/ call_get_product_variations
    \/ call_create_variation
    \/ call_get_product_reviews
    \/ call_update_review
    \/ call_delete_review
    \/ call_list_fetcher
    \/ ask_openai
    \/ ask_gemini

SpecApi == InitApi /\ [][NextApi]_vars
\* A started call goes on: every request is answered or raises within its
\* timeout=30, and the loop body has no other blocking step than the 0.5 s pause.
get_all_products_step ==
    get_all_products_page \/ get_all_products_empty \/ get_all_products_fail
SpecApiFair == SpecApi /\ WF_vars(get_all_products_step)

\* ===================================================================== claims
Returned(fn) == pc = "returned" /\ api_call.fn = fn
T == Len(remote_products)
\* the concatenation of pages 1..k of the remote collection
Pages(k) == SubSeq(remote_products, 1, Min(k * per_page, T))
ListResult(l) == Return("absent", <<"list", l>>)

\* C1: when no page request fails, get_all_products returns exactly the T
\* remote products, each once, in remote page order.
C1_FetchAllComplete ==
    (Returned("get_all_products") /\ failed_at = 0)
        => api_call.result = ListResult(remote_products)
C1_Witness ==
    /\ Returned("get_all_products") /\ failed_at = 0
    /\ T > 2 * per_page /\ T % per_page # 0
    /\ api_call.result = ListResult(remote_products)

\* C2 (as claimed): when no page request fails, get_all_products issues
\* exactly ceil(T/N) page requests before returning.
C2_Original ==
    (Returned("get_all_products") /\ failed_at = 0)
        => requests = CeilDiv(T, per_page)
\* C2 (amended): when no page request fails, get_all_products issues exactly
\* ceil(T/N) + 1 page requests: the ceil(T/N) non-empty pages and the empty
\* page that ends the loop.
C2_RequestCount ==
    (Returned("get_all_products") /\ failed_at = 0)
        => /\ requests = CeilDiv(T, per_page) + 1
           /\ page = requests
C2_Witness ==
    /\ Returned("get_all_products") /\ failed_at = 0
    /\ T = 2 * per_page /\ requests = 3

\* C3 (as claimed): if the k-th page request fails, the call returns, without
\* raising and with no error indicator, the concatenation of pages 1..k-1, and
\* that result is a strict prefix of the full collection.
C3_Original ==
    (Returned("get_all_products") /\ failed_at > 0)
        => /\ api_call.result = ListResult(Pages(failed_at - 1))
           /\ IsPrefix(all_products, remote_products)
           /\ Len(all_products) < T
\* C3 (amended): if the k-th page request fails, the call returns, without
\* raising and with no error indicator, the concatenation of pages 1..k-1,
\* which is a prefix of the full collection: a strict prefix when page k is
\* not empty (k <= ceil(T/N)), and the whole collection when the failing
\* request is the one for the empty page after the last (k = ceil(T/N) + 1).
C3_FailedPagePrefix ==
    (Returned("get_all_products") /\ failed_at > 0)
        => /\ api_call.result = ListResult(Pages(failed_at - 1))
           /\ IsPrefix(Pages(failed_at - 1), remote_products)
           /\ failed_at <= CeilDiv(T, per_page) + 1
           /\ (Len(Pages(failed_at - 1)) < T) <=> (failed_at <= CeilDiv(T, per_page))
C3_Witness ==
    /\ Returned("get_all_products") /\ failed_at = 3
    /\ api_call.out.kind = "response" /\ api_call.out.status = 500
    /\ Len(api_call.result.ret[2]) = 2 * per_page
    /\ T > 2 * per_page


\* a step that is a get_products_cached call with key k
CallStep(k) ==
    /\ last_call'.op = "call" /\ last_call'.key = k
    /\ UNCHANGED <<now, remote>>

\* C4: a second get_products_cached call with the same key, made less than
\* TTL after the call that stored the entry and with no clear in between,
\* returns the stored (products, total) result and issues no network request.
C4_HitWithinTTL ==
    [][\A k \in CacheKeys :
        (k \in DOMAIN cache /\ now - cache[k].stored_at < TTL /\ CallStep(k))
            => /\ last_call'.result = cache[k].value
               /\ ~last_call'.live
               /\ cache' = cache]_vars
C4_Witness ==
    /\ last_call.op = "call" /\ ~last_call.live
    /\ last_call.key \in DOMAIN cache
    /\ now - cache[last_call.key].stored_at = TickStep
    /\ last_call.result # EmptyPair
    /\ last_call.result # get_products_live(OkList(remote, last_call.key)).ret

\* C5: after get_products_cached.clear() the cache holds no entries, and the
\* next get_products_cached call, for any key, performs a live request, however
\* recently that key was stored.
C5_ClearThenLive ==
    /\ last_call.op = "clear" => cache = EmptyCache
    /\ (last_call.op = "call" /\ last_call.after_clear)
          => /\ last_call.live
             /\ DOMAIN cache = {last_call.key}
C5_Witness ==
    /\ last_call.op = "call" /\ last_call.after_clear
    /\ last_call.dropped = {last_call.key}
    /\ last_call.live
    /\ now = 0

\* the requests and cache operations of the last script run
RunLog == {last_run.log[i] : i \in 1..Len(last_run.log)}

\* C6: after every successful create, update or delete of a product or
\* variation issued by a UI handler, the product cache is cleared before the
\* next get_products_cached call: no cached fetch returns, without a live
\* request, a result that was stored before a successful mutation.
C6_NoStaleHitAfterMutation ==
    \A e \in RunLog :
        (e.fn = "get_products_cached" /\ ~e.live) => ~e.outdated

Creates == {"create_product", "create_variation"}
UpdatesDeletes == {"update_product", "delete_product"}

\* C7: for every response the transport can deliver (any status, any body,
\* also one that does not decode as JSON), create_product and
\* create_variation return success = true iff the status is 201, and
\* update_product and delete_product iff the status is 200.
C7_SuccessIffStatus ==
    (pc = "returned" /\ api_call.fn \in Creates \cup UpdatesDeletes
        /\ api_call.out.kind = "response")
        => (api_call.result.flag = "True" <=> api_call.out.status = ExpectedStatus(api_call.fn))

\* C8: for create_product, create_variation, update_product and
\* delete_product, whenever the response status differs from the expected one,
\* the result is (False, body) with body the raw response text, unchanged.
C8_FailureKeepsBody ==
    (pc = "returned" /\ api_call.fn \in Creates \cup UpdatesDeletes
        /\ api_call.out.kind = "response"
        /\ api_call.out.status # ExpectedStatus(api_call.fn))
        => api_call.result = Return("False", Text(api_call.out.body))
C8_Witness ==
    /\ Returned("update_product")
    /\ api_call.out.kind = "response" /\ api_call.out.status = 404
    /\ api_call.out.body.decodes
    /\ api_call.result = Return("False", Text(api_call.out.body))

MutationHelpers == Creates \cup UpdatesDeletes \cup {"update_review", "delete_review"}
EmptyValue(fn) ==
    CASE fn = "get_products_cached" -> EmptyPair
      [] fn = "get_product_by_id" -> None
      [] OTHER -> EmptyList
\* the outcomes C9 names: a timeout, a connection error, a non-2xx status;
\* its helpers are the store's, not the AI providers'
FailedOutcome(out) == out.kind # "response" \/ out.status \notin 200..299

\* C9 (as claimed): no helper raises to its caller; on a timeout, a connection
\* error or a non-2xx status, a mutation helper returns (False, message) or
\* False and a read helper returns its empty value ([], ([], 0) or None).
C9_Original ==
    pc = "returned" =>
        /\ api_call.result.raised = ""
        /\ (FailedOutcome(api_call.out) /\ api_call.fn \notin AiHelpers) =>
             IF api_call.fn \in MutationHelpers
             THEN api_call.result.flag = "False"
             ELSE api_call.result = Return("absent", EmptyValue(api_call.fn))
\* C9 (amended): no helper raises to its caller; on a timeout, a connection
\* error or a non-2xx status, a mutation helper returns (False, message) or
\* False, a single-request read helper returns its empty value ([], ([], 0) or
\* None), and get_all_products returns the products of the pages fetched
\* before the failing request (empty only when the first request fails).
C9_NeverRaises ==
    pc = "returned" =>
        /\ api_call.result.raised = ""
        /\ (FailedOutcome(api_call.out) /\ api_call.fn \notin AiHelpers) =>
             IF api_call.fn \in MutationHelpers
             THEN /\ api_call.result.flag = "False"
                  /\ api_call.result.ret \in
                       {Text(api_call.out.body), StrExc(api_call.out.kind), NoValue}
             ELSE IF api_call.fn = "get_all_products"
             THEN /\ api_call.result = ListResult(Pages(failed_at - 1))
                  /\ (failed_at = 1 => api_call.result.ret = EmptyList)
             ELSE api_call.result = Return("absent", EmptyValue(api_call.fn))
C9_Witness ==
    /\ Returned("get_orders")
    /\ api_call.out.kind = "Timeout"
    /\ api_call.result = Return("absent", EmptyList)

\* C10: every delete request sent with force=true, for a product or for a
\* review, is issued only after the user has given an explicit confirmation
\* for that deletion.
C10_ForceDeleteConfirmed ==
    \A e \in RunLog :
        (e.fn \in {"delete_product", "delete_review"} /\ e.force) => last_run.confirmed

\* the requests that change the store
MutationFns ==
    {"update_product", "delete_product", "create_product", "create_variation",
     "update_review", "delete_review"}
\* entries i, i+1 of log l: the promotion accepted, then the creation refused
PromotedThenFailed(l, i) ==
    /\ i + 2 <= Len(l)
    /\ l[i].fn = "update_product" /\ l[i].status = HTTP_OK
    /\ l[i + 1].fn = "create_variation" /\ l[i + 1].status # HTTP_CREATED

\* C11: in the add-variation sequence against a non-variable product, if the
\* promotion update succeeds and the variation creation then fails, the run
\* ends with the remote product of type "variable" and with no variation
\* added (zero if it had none): no request follows the failed creation to
\* undo the promotion, and the failure is reported with st.error.
C11_PromotedWithoutVariation ==
    [][\A i \in 1..Len(last_run'.log) :
          PromotedThenFailed(last_run'.log, i)
              => /\ remote'.p_type = "variable"
                 /\ remote'.p_vars = remote.p_vars
                 /\ last_run'.log[i + 2].fn = "st.error"
                 /\ \A j \in (i + 2)..Len(last_run'.log) :
                       last_run'.log[j].fn \notin MutationFns]_vars
C11_Witness ==
    /\ \E i \in 1..Len(last_run.log) : PromotedThenFailed(last_run.log, i)
    /\ remote.p_type = "variable"
    /\ remote.p_vars = 0

\* a list fetcher returned the decoded page of a 200 response
ReturnedPage(fn) ==
    /\ Returned(fn)
    /\ api_call.out.kind = "response" /\ api_call.out.status = HTTP_OK
    /\ api_call.result.ret[1] = "list" /\ api_call.result.ret # EmptyList

\* C12: for any collection size T (also T greater than one page of 100) and
\* no failed request, get_orders, get_product_reviews and
\* get_product_variations return all T entities of the remote collection.
C12_FetchersComplete ==
    \A fn \in ListFetchers :
        ReturnedPage(fn) => api_call.result = ListResult(remote_products)

\* the entries of a run that are requests to the store API
StoreRequests == {e \in RunLog : e.fn \notin {"st.success", "st.error", "clear"}}
NonEmpty(c) == c.store_url # "" /\ c.consumer_key # "" /\ c.consumer_secret # ""

\* C13: no request to the store API is issued with an empty store URL,
\* consumer key or consumer secret: the connection test is sent only when the
\* three inputs are non-empty, and whenever logged_in is true the session's
\* store_url, consumer_key and consumer_secret are non-empty.
C13_NoEmptyCredentials ==
    /\ \A e \in StoreRequests : NonEmpty(e.creds)
    /\ session_state.logged_in => NonEmpty(session_state)
C13_Witness ==
    /\ session_state.logged_in
    /\ session_state.store_url = Store1
    /\ config_file.saved /\ config_file.store_url = Store1Slash
    /\ \E e \in StoreRequests : e.fn = "update_product" /\ e.creds = SessionCreds


\* ------------------------------------------------------------ Analytics tab
CountOf(ps, vs) ==
    Cardinality({i \in 1..Len(ps) : ps[i].catalog_visibility \in vs})

\* C14: in the visibility histogram every product without a catalog_visibility
\* field is counted under "visible" (the histogram has no key of its own for
\* them); for [visible, hidden, catalog, search, visible, <missing>] the
\* visible count is 3.
C14_MissingCountsAsVisible ==
    analytics.done =>
        /\ Missing \notin DOMAIN analytics.visibility_counts
        /\ analytics.visibility_counts["visible"]
               = CountOf(analytics_products, {"visible", Missing})
        /\ analytics_products = ExampleProducts
               => analytics.visibility_counts["visible"] = 3
C14_Witness ==
    /\ analytics.done
    /\ analytics_products = ExampleProducts
    /\ analytics.visibility_counts["visible"] = 3

\* C15: a product whose catalog_visibility is present but is none of
\* visible, catalog, search, hidden is counted under "visible": the histogram
\* has exactly the four enum keys and their counts sum to the number of
\* products.
C15_UnknownCountsAsVisible ==
    analytics.done =>
        /\ DOMAIN analytics.visibility_counts = VisibilityEnum
        /\ analytics.visibility_counts["visible"]
               = CountOf(analytics_products, VisValues \ {"catalog", "search", "hidden"})
        /\ analytics.visibility_counts["visible"] + analytics.visibility_counts["catalog"]
               + analytics.visibility_counts["search"] + analytics.visibility_counts["hidden"]
               = Len(analytics_products)

\* C16: the average order value is 0 for an empty order list, with no division
\* by zero; otherwise it is the sum of the order totals divided by the number
\* of orders; for the totals [100, 300] it is 200.
C16_AverageOrder ==
    analytics.done =>
        /\ analytics.avg_order.raised = ""
        /\ analytics_orders = <<>> => analytics.avg_order = Zero
        /\ analytics_orders # <<>> =>
               /\ analytics.avg_order.q * Len(analytics_orders) + analytics.avg_order.r
                      = analytics.total_revenue
               /\ analytics.avg_order.r \in 0..(Len(analytics_orders) - 1)
        /\ (Len(analytics_orders) = 2 /\ analytics_orders[1].total = 100
                /\ analytics_orders[2].total = 300)
               => analytics.total_revenue = 400 /\ analytics.avg_order.q = 200
                      /\ analytics.avg_order.r = 0
C16_Witness ==
    /\ analytics.done
    /\ Len(analytics_orders) = 2
    /\ analytics_orders[1].total = 100
    /\ analytics_orders[2].total = 300
    /\ analytics.avg_order.q = 200

\* the quantity sold of product pid over the line items, and the position of
\* its first line item
RECURSIVE QtyOf(_, _)
QtyOf(items, pid) ==
    IF items = <<>> THEN 0
    ELSE QtyOf(SubSeq(items, 1, Len(items) - 1), pid)
             + (IF items[Len(items)].product_id = pid THEN items[Len(items)].quantity ELSE 0)
FirstAt(items, pid) ==
    CHOOSE i \in 1..Len(items) :
        /\ items[i].product_id = pid
        /\ \A j \in 1..(i - 1) : items[j].product_id # pid
SoldPids(items) == {items[i].product_id : i \in 1..Len(items)}

C18_FailureIsTerminal ==
    (pc = "returned" /\ FailedOutcome(api_call.out)) =>
        IF api_call.fn = "get_all_products" THEN requests = failed_at
        ELSE requests = 1


\* ------------------------------------------------------- the paging loop
\* C19: within one get_all_products call the page requests are issued one at
\* a time in the order page 1, 2, 3, ... with the same page size, and every
\* request after the first comes after exactly one pause of its own, made
\* after the previous page's successful non-empty response.
C19_PagesInOrder ==
    [][(pc = "loop" /\ requests' # requests) =>
          /\ requests' = requests + 1
          /\ page = requests + 1
          /\ sleeps = requests
          /\ per_page' = per_page
          /\ sleeps' \in {sleeps, sleeps + 1}
          /\ sleeps' = sleeps + 1 <=>
                 /\ pc' = "loop"
                 /\ page' = page + 1
                 /\ all_products' = all_products \o RemotePage(remote_products, page, per_page)
                 /\ RemotePage(remote_products, page, per_page) # <<>>]_vars
C19_Witness ==
    /\ Returned("get_all_products")
    /\ requests >= 3
    /\ sleeps = requests - 1
    /\ page = requests


\* C20: get_all_products terminates for every finite remote collection and
\* every pattern of request failures: a started call returns; the request
\* that meets an empty page or fails is the call's last one, at most one
\* request past the last non-empty page; nothing is requested after the
\* return.
C20_Terminates ==
    /\ (pc = "loop") ~> (pc = "returned")
    /\ [](pc = "loop" => requests <= CeilDiv(T, per_page))
    /\ [][(pc = "loop" /\ requests' # requests
              /\ RemotePage(remote_products, page, per_page) = <<>>)
             => pc' = "returned"]_vars
    /\ [][failed_at' # failed_at
             => (pc = "loop" /\ pc' = "returned" /\ failed_at' = requests')]_vars
    /\ [][pc = "returned" => (pc' = "returned" /\ requests' = requests)]_vars
C20_Witness ==
    /\ Returned("get_all_products")
    /\ failed_at = requests
    /\ requests >= 2
    /\ Len(all_products) < T


\* ------------------------------------------------------- cache, second part
\* a step that is a call of get_products_cached
CachedCallStep ==
    /\ last_call'.op = "call"
    /\ now' = now /\ remote' = remote
    /\ <<cache, last_call>>' # <<cache, last_call>>

\* C21: a get_products_cached call for a key without an entry, or with an
\* entry of age >= TTL, performs one live request and stores its result under
\* the key with the time of the call, in place of the old entry; the entries
\* of the other keys are unchanged.
C21_MissStoresFresh ==
    [][(CachedCallStep /\ ~Fresh(cache, last_call'.key, now)) =>
          LET k == last_call'.key IN
            /\ last_call'.live
            /\ DOMAIN cache' = DOMAIN cache \cup {k}
            /\ cache'[k].stored_at = now
            /\ cache'[k].value = last_call'.result
            /\ \A x \in DOMAIN cache \ {k} : cache'[x] = cache[x]]_vars
C21_Witness ==
    /\ last_call.op = "call" /\ last_call.live
    /\ now >= TTL
    /\ cache[last_call.key].stored_at = now
    /\ \E x \in DOMAIN cache : x # last_call.key /\ cache[x].stored_at = 0


\* C23: only the results of successful live fetches are cached: a live fetch
\* that fails (its result is the failure value ([], 0)) stores no entry under
\* its key, and no call is answered from the cache with the failure value.
C23_FailuresNotCached ==
    [][CachedCallStep =>
          /\ (last_call'.live /\ last_call'.result = EmptyPair)
                 => last_call'.key \notin DOMAIN cache'
          /\ ~last_call'.live => last_call'.result # EmptyPair]_vars


\* ------------------------------------------------------- login and logout
\* C22: after Logout the session holds no credentials and logged_in is false;
\* the next run shows the login page, and while logged_in is false no run
\* issues a store request other than the connection test of a Connect press.
C22_LogoutEndsSession ==
    /\ [](~session_state.logged_in => session_state = NoSession)
    /\ [][(session_state.logged_in /\ ~session_state'.logged_in)
             => (session_state' = NoSession /\ rerun_pending' /\ last_run'.log = <<>>)]_vars
    /\ [][~session_state.logged_in =>
             /\ rendered' \subseteq {W("connect", 0), W("delete_saved", 0)}
             /\ W("connect", 0) \in rendered'
             /\ rerun_pending => last_run'.log = <<>>
             /\ \A i \in 1..Len(last_run'.log) : last_run'.log[i].fn = "connect"]_vars
C22_Witness ==
    /\ session_state = NoSession
    /\ ~rerun_pending
    /\ W("connect", 0) \in rendered
    /\ cache # EmptyCache
    /\ last_run.log = <<>>

\* the connection test of the run, when the run made one
ConnectTests(run) == {run.log[i] : i \in {j \in 1..Len(run.log) : run.log[j].fn = "connect"}}

\* C27: logged_in becomes true only in a run where Connect was pressed with a
\* non-empty store URL, key and secret and the connection test was answered
\* with status 200; the credentials file is written only in such a run and
\* only with the save checkbox ticked; a connection test that fails or raises
\* leaves the session state and the credentials file as they were.
C27_LoginOnlyByConnect ==
    [][/\ (~session_state.logged_in /\ session_state'.logged_in) =>
             \E e \in ConnectTests(last_run') :
                 /\ e.status = HTTP_OK
                 /\ NonEmpty(e.creds)
                 /\ session_state'.consumer_key = e.creds.consumer_key
                 /\ session_state'.consumer_secret = e.creds.consumer_secret
                 /\ session_state'.store_url = RStrip(e.creds.store_url)
       /\ (config_file' # config_file /\ config_file'.saved) =>
             /\ ~session_state.logged_in /\ session_state'.logged_in
             /\ last_run'.save_creds
             /\ \E e \in ConnectTests(last_run') :
                    /\ e.status = HTTP_OK
                    /\ config_file'.store_url = e.creds.store_url
                    /\ config_file'.consumer_key = e.creds.consumer_key
                    /\ config_file'.consumer_secret = e.creds.consumer_secret
       /\ (\E e \in ConnectTests(last_run') : e.status # HTTP_OK) =>
             /\ session_state' = session_state
             /\ config_file' = config_file]_vars
C27_Witness ==
    /\ session_state.logged_in /\ rerun_pending
    /\ last_run.save_creds
    /\ config_file.saved /\ config_file.store_url = Store1Slash
    /\ \E e \in ConnectTests(last_run) : e.status = HTTP_OK


\* -------------------------------------------------- add variation, delete
\* C24: the add-variation handler sends the create-variation request only
\* when the parent product is of type "variable": a run that sent one leaves
\* the product variable, and a promotion update that failed is not followed
\* by a create-variation request.
C24_CreateOnlyIfVariable ==
    \A i \in 1..Len(last_run.log) :
        /\ last_run.log[i].fn = "create_variation" => remote.p_type = "variable"
        /\ (last_run.log[i].fn = "update_product" /\ last_run.log[i].flag = "False"
                /\ i < Len(last_run.log))
               => last_run.log[i + 1].fn # "create_variation"


ForcedDeletes(run) ==
    {i \in 1..Len(run.log) : run.log[i].fn = "delete_product" /\ run.log[i].force}

\* C26: permanent deletion is reachable: the user clicks Delete Permanently,
\* the confirmation checkbox appears, the user ticks it, and the run that the
\* tick triggers calls delete_product with force=True.
C26_PermanentDeleteReachable ==
    [][(W("confirm", 0) \in rendered /\ last_run'.ticked) => ForcedDeletes(last_run') # {}]_vars
\* what holds instead: no run ever calls delete_product with force=True
C26_NeverForced == ForcedDeletes(last_run) = {}
C26_Witness ==
    /\ last_run.ticked
    /\ ForcedDeletes(last_run) = {}
    /\ W("confirm", 0) \notin rendered


\* ------------------------------------------------------------- bulk upload
\* the create requests and the cache clears of a run, by position in its log
CreateRows(run) == {i \in 1..Len(run.log) : run.log[i].fn = "create_product"}
Clears(run) == {i \in 1..Len(run.log) : run.log[i].fn = "clear"}

\* C25: a bulk upload of R rows issues exactly R create requests, one after
\* the other, going on after failed rows; at the end success_count +
\* error_count = R and success_count is the number of 201 responses; the
\* product cache is cleared once, after the last row, whether or not a row
\* succeeded.
C25_BulkUploadCounts ==
    CreateRows(last_run) # {} =>
        /\ Cardinality(CreateRows(last_run)) = uploaded_file
        /\ last_run.success_count + last_run.error_count = uploaded_file
        /\ last_run.success_count
               = Cardinality({i \in CreateRows(last_run) : last_run.log[i].status = HTTP_CREATED})
        /\ Cardinality(Clears(last_run)) = 1
        /\ \A i \in CreateRows(last_run) : \A j \in Clears(last_run) : i < j
\* what holds instead: success_count is the number of rows for which
\* create_product returned success
C25_CountsReturnedFlags ==
    CreateRows(last_run) # {} =>
        /\ Cardinality(CreateRows(last_run)) = uploaded_file
        /\ \A i, j \in CreateRows(last_run) : \A m \in i..j : m \in CreateRows(last_run)
        /\ last_run.success_count + last_run.error_count = uploaded_file
        /\ last_run.success_count
               = Cardinality({i \in CreateRows(last_run) : last_run.log[i].flag = "True"})
        /\ Cardinality(Clears(last_run)) = 1
        /\ \A i \in CreateRows(last_run) : \A j \in Clears(last_run) : i < j
C25_Witness ==
    /\ uploaded_file = MaxRows
    /\ \E i, j \in CreateRows(last_run) :
           /\ i < j
           /\ last_run.log[i].status = HTTP_CREATED /\ last_run.log[i].flag = "False"
           /\ last_run.log[j].flag = "True"
    /\ last_run.success_count = 1
    /\ Clears(last_run) # {}

====
